---------------------------- MODULE Spec2Model ----------------------------
(***************************************************************************)
(* MCD Target Hunter: the single-pass contextual line scanner              *)
(* (scan_file_for_hits), its matching helpers (_contains,                  *)
(* _tool_number_match), the report writer (write_csv_report) and the two   *)
(* front ends that drive them (cli.main "core", MainWindow.on_run).        *)
(*                                                                         *)
(* Text is modelled as a sequence of one-character strings, so that        *)
(* trimming, case folding, substring search and the regular expressions    *)
(* are computed character by character.  An Optional[str] is a sequence of *)
(* length 0 (None) or 1 (the string).                                      *)
(***************************************************************************)
EXTENDS Integers, Sequences, FiniteSets, TLC

\* ------------------------------------------------------------------ bounds

\* Largest number of lines in a scanned file.
MaxLines == 2

\* The most calls of scan_file_for_hits one process makes.
MaxScans == 2

\* ------------------------------------------------------------- characters

UpperLetters == <<"A","B","C","D","E","F","G","H","I","J","K","L","M",
                  "N","O","P","Q","R","S","T","U","V","W","X","Y","Z">>

LowerLetters == <<"a","b","c","d","e","f","g","h","i","j","k","l","m",
                  "n","o","p","q","r","s","t","u","v","w","x","y","z">>

Digits == {"0","1","2","3","4","5","6","7","8","9"}

\* str.strip() and the pattern class \s: the whitespace a line can still
\* hold after splitlines() has removed the line breaks.
WhiteSpace == {" ", "\t"}

\* The pattern class \w, which decides where \b holds.
WordChars ==
    {UpperLetters[i] : i \in 1..26} \cup {LowerLetters[i] : i \in 1..26}
        \cup Digits \cup {"_"}

\* str.lower() on the letters: the map from each uppercase letter.
LowerOf == [c \in {UpperLetters[i] : i \in 1..26} |->
              LowerLetters[CHOOSE i \in 1..26 : UpperLetters[i] = c]]

\* str.lower() on one character.
LowerChar(c) == IF c \in DOMAIN LowerOf THEN LowerOf[c] ELSE c

\* str.lower()
Lower(s) == [i \in 1..Len(s) |-> LowerChar(s[i])]

\* str.strip(): drop leading and trailing whitespace.
Strip(s) ==
    LET keep == {i \in 1..Len(s) : s[i] \notin WhiteSpace}
    IN  IF keep = {} THEN <<>>
        ELSE LET lo == CHOOSE i \in keep : \A j \in keep : i <= j
                 hi == CHOOSE i \in keep : \A j \in keep : j <= i
             IN  SubSeq(s, lo, hi)

\* Python's `needle in haystack` on strings (true for an empty needle).
IsSubstring(needle, haystack) ==
    \E i \in 0..(Len(haystack) - Len(needle)) :
        \A j \in 1..Len(needle) : haystack[i + j] = needle[j]

\* Python truthiness of a string: `if s` / `not s`.
Truthy(s) == s # <<>>

\* Optional[str]: None, and a present value.
None == <<>>
Some(s) == <<s>>

\* `x or ""` for x: Optional[str].
OrEmpty(x) == IF x = None THEN <<>> ELSE x[1]

\* ---------------------------------------------------------------- matching

\* _contains as it would be if it lowercased both sides whatever the flag.
_containsAlwaysFolded(haystack, needle, case_sensitive) ==
    IF ~Truthy(needle) THEN FALSE
    ELSE IsSubstring(Lower(needle), Lower(haystack))

\* _contains(haystack, needle, case_sensitive)
_contains(haystack, needle, case_sensitive) ==
    IF ~Truthy(needle) THEN FALSE
    ELSE IF case_sensitive THEN IsSubstring(needle, haystack)
    ELSE IsSubstring(Lower(needle), Lower(haystack))

\* One pattern character against one line character under the re flags
\* (re.IGNORECASE unless case_sensitive).
CharMatches(c, p, case_sensitive) ==
    IF case_sensitive THEN c = p ELSE LowerChar(c) = LowerChar(p)

\* The regular expressions are run as position sets: a position k in
\* 1..Len(s)+1 stands for "the next character to read is s[k]".

\* A literal string: the positions after reading lit from a position of S.
ReLit(s, S, lit, case_sensitive) ==
    {k + Len(lit) : k \in {k \in S : k + Len(lit) - 1 <= Len(s)
                              /\ \A j \in 1..Len(lit) :
                                   CharMatches(s[k + j - 1], lit[j], case_sensitive)}}

\* class* : zero or more characters of a class.
ReStar(s, S, class) ==
    {j \in 1..(Len(s) + 1) :
        \E k \in S : k <= j /\ \A m \in k..(j - 1) : s[m] \in class}

\* class+ : one or more characters of a class.
RePlus(s, S, class) ==
    ReStar(s, {k + 1 : k \in {k \in S : k <= Len(s) /\ s[k] \in class}}, class)

\* x? : with or without what leads from S to T.
ReOpt(S, T) == S \cup T

\* [abc] : one character of a set, compared exactly (no letters in the sets used).
ReSet(s, S, chars) == {k + 1 : k \in {k \in S : k <= Len(s) /\ s[k] \in chars}}

\* \b : the positions of S with a word character on exactly one side.
ReWordBoundary(s, S) ==
    {k \in S : (k > 1 /\ s[k - 1] \in WordChars) # (k <= Len(s) /\ s[k] \in WordChars)}

\* Every position a search may start from.
ReStarts(s) == 1..(Len(s) + 1)

\* r"\bT\s*[=#]?\s*\"?\s*\d+\b"
PatternT(s, case_sensitive) ==
    LET p1 == ReLit(s, ReWordBoundary(s, ReStarts(s)), <<"T">>, case_sensitive)
        p2 == ReStar(s, p1, WhiteSpace)
        p3 == ReOpt(p2, ReSet(s, p2, {"=", "#"}))
        p4 == ReStar(s, p3, WhiteSpace)
        p5 == ReOpt(p4, ReSet(s, p4, {"\""}))
        p6 == ReStar(s, p5, WhiteSpace)
        p7 == RePlus(s, p6, Digits)
    IN  ReWordBoundary(s, p7) # {}

\* r"\bTOOL\s*(?:NO\.?)?\s*[=:]?\s*\d+\b"
PatternTool(s, case_sensitive) ==
    LET p1 == ReLit(s, ReWordBoundary(s, ReStarts(s)), <<"T","O","O","L">>, case_sensitive)
        p2 == ReStar(s, p1, WhiteSpace)
        no == ReLit(s, p2, <<"N","O">>, case_sensitive)
        p3 == ReOpt(p2, ReOpt(no, ReSet(s, no, {"."})))
        p4 == ReStar(s, p3, WhiteSpace)
        p5 == ReOpt(p4, ReSet(s, p4, {"=", ":"}))
        p6 == ReStar(s, p5, WhiteSpace)
        p7 == RePlus(s, p6, Digits)
    IN  ReWordBoundary(s, p7) # {}

\* r"\bTOOL\s*CALL\s*\d+\b"
PatternToolCall(s, case_sensitive) ==
    LET p1 == ReLit(s, ReWordBoundary(s, ReStarts(s)), <<"T","O","O","L">>, case_sensitive)
        p2 == ReStar(s, p1, WhiteSpace)
        p3 == ReLit(s, p2, <<"C","A","L","L">>, case_sensitive)
        p4 == ReStar(s, p3, WhiteSpace)
        p5 == RePlus(s, p4, Digits)
    IN  ReWordBoundary(s, p5) # {}

\* _tool_number_match(line, case_sensitive)
_tool_number_match(line, case_sensitive) ==
    IF ~Truthy(line) THEN FALSE
    ELSE \/ PatternT(line, case_sensitive)
         \/ PatternTool(line, case_sensitive)
         \/ PatternToolCall(line, case_sensitive)


\* ------------------------------------------------------------ configuration

\* AppConfig's field defaults (the search settings; the two remembered paths
\* are not modelled).
AppConfigDefaults ==
    [target_text      |-> <<"P","O","S","T","-","G","E","N","E","R","A","T","E","D">>,
     parent_text      |-> <<"O","P","E","R","A","T","I","O","N"," ","N","A","M","E">>,
     use_parent       |-> TRUE,
     op_no_text       |-> <<"O","P","E","R","A","T","I","O","N"," ","N","O","."," ","=">>,
     tool_change_text |-> <<"M","0","6">>,
     case_sensitive   |-> FALSE]

\* A value read from JSON, as Python holds it: its type and its JSON text.
PyStr(text) == [t |-> "str", s |-> text]
PyInt(digits) == [t |-> "int", s |-> digits]
PyNull == [t |-> "NoneType", s |-> <<"n","u","l","l">>]
PyTrue == [t |-> "bool", s |-> <<"t","r","u","e">>]
PyFalse == [t |-> "bool", s |-> <<"f","a","l","s","e">>]

\* bool(v)
PyBool(v) ==
    CASE v.t = "str"      -> v.s # <<>>
      [] v.t = "int"      -> v.s # <<"0">>
      [] v.t = "bool"     -> v = PyTrue
      [] v.t = "NoneType" -> FALSE

\* AppConfig(): every field at its default, as load returns them (a text
\* field holds whatever Python value it was given).
AppConfig ==
    [target_text      |-> PyStr(AppConfigDefaults.target_text),
     parent_text      |-> PyStr(AppConfigDefaults.parent_text),
     use_parent       |-> AppConfigDefaults.use_parent,
     op_no_text       |-> PyStr(AppConfigDefaults.op_no_text),
     tool_change_text |-> PyStr(AppConfigDefaults.tool_change_text),
     case_sensitive   |-> AppConfigDefaults.case_sensitive]

\* The config file as load finds it.  kind: missing (os.path.isfile is
\* false), unreadable (open raises OSError), not_json (json.load raises),
\* or the type of the JSON document: list, str, int, NoneType, bool, dict.
\* A dict's keys and values are in fields.

\* The exception the try block of load raises on a file; "" when it does not.
LoadRaises(file) ==
    CASE file.kind = "missing"    -> ""
      [] file.kind = "unreadable" -> "OSError"
      [] file.kind = "not_json"   -> "JSONDecodeError"
      [] file.kind = "dict"       -> ""
      [] OTHER                    -> "AttributeError"

\* The exceptions `except Exception` catches, of those raised here.
CaughtByExceptException == {"OSError", "JSONDecodeError", "AttributeError"}

\* data.get(key, default)
DictGet(fields, key, default) ==
    IF key \in DOMAIN fields THEN fields[key] ELSE default

\* The AppConfig(...) built from the dict json.load returned.
ConfigFromDict(fields) ==
    [target_text      |-> DictGet(fields, "target_text", AppConfig.target_text),
     parent_text      |-> DictGet(fields, "parent_text", AppConfig.parent_text),
     use_parent       |-> PyBool(DictGet(fields, "use_parent", PyTrue)),
     op_no_text       |-> DictGet(fields, "op_no_text", AppConfig.op_no_text),
     tool_change_text |-> DictGet(fields, "tool_change_text", AppConfig.tool_change_text),
     case_sensitive   |-> PyBool(DictGet(fields, "case_sensitive", PyFalse))]

\* AppConfig.load(): the exception that leaves it ("" when it returns) and
\* the configuration it returns.
AppConfig_load(file) ==
    LET exc == LoadRaises(file)
    IN  IF exc # "" /\ exc \notin CaughtByExceptException
        THEN [raised |-> exc, config |-> AppConfig]
        ELSE IF file.kind = "dict" /\ exc = ""
        THEN [raised |-> "", config |-> ConfigFromDict(file.fields)]
        ELSE [raised |-> "", config |-> AppConfig]

\* The search settings of a loaded configuration whose text fields are
\* strings, as the scanner takes them.
PlainConfig(c) ==
    [target_text      |-> c.target_text.s,
     parent_text      |-> c.parent_text.s,
     use_parent       |-> c.use_parent,
     op_no_text       |-> c.op_no_text.s,
     tool_change_text |-> c.tool_change_text.s,
     case_sensitive   |-> c.case_sensitive]

\* --------------------------------------------------------------- the scan

\* One pass of the loop body of scan_file_for_hits over the line at 0-based
\* index idx.  st holds the four trackers and the rows emitted so far.

\* UpdateParent as it would be without the use_parent test.
UpdateParentAlways(last_parent, stripped, cfg) ==
    IF Truthy(cfg.parent_text)
          /\ _contains(stripped, cfg.parent_text, cfg.case_sensitive)
    THEN Some(stripped) ELSE last_parent

\* if use_parent and parent_text and _contains(stripped, parent_text, ...)
UpdateParent(last_parent, stripped, cfg) ==
    IF cfg.use_parent /\ Truthy(cfg.parent_text)
          /\ _contains(stripped, cfg.parent_text, cfg.case_sensitive)
    THEN Some(stripped) ELSE last_parent

\* UpdateOpNo as it would be if the tracker kept its first match.
UpdateOpNoKeepFirst(last_op_no, stripped, cfg) ==
    IF last_op_no = None /\ Truthy(cfg.op_no_text)
          /\ _contains(stripped, cfg.op_no_text, cfg.case_sensitive)
    THEN Some(stripped) ELSE last_op_no

\* if op_no_text and _contains(stripped, op_no_text, ...)
UpdateOpNo(last_op_no, stripped, cfg) ==
    IF Truthy(cfg.op_no_text)
          /\ _contains(stripped, cfg.op_no_text, cfg.case_sensitive)
    THEN Some(stripped) ELSE last_op_no

\* UpdateToolChange as it would be with a bare `in` test: no check for an
\* empty search string.
UpdateToolChangeUnguarded(last_tool_change, stripped, cfg) ==
    IF (IF cfg.case_sensitive
        THEN IsSubstring(cfg.tool_change_text, stripped)
        ELSE IsSubstring(Lower(cfg.tool_change_text), Lower(stripped)))
    THEN Some(stripped) ELSE last_tool_change

\* if tool_change_text and _contains(stripped, tool_change_text, ...)
UpdateToolChange(last_tool_change, stripped, cfg) ==
    IF Truthy(cfg.tool_change_text)
          /\ _contains(stripped, cfg.tool_change_text, cfg.case_sensitive)
    THEN Some(stripped) ELSE last_tool_change

\* if _tool_number_match(stripped, case_sensitive)
UpdateToolNumber(last_tool_number, stripped, cfg) ==
    IF _tool_number_match(stripped, cfg.case_sensitive)
    THEN Some(stripped) ELSE last_tool_number

\* IsTargetHit as it would be with a bare `in` test: no check for an empty
\* target_text.
IsTargetHitBareIn(stripped, cfg) ==
    IF cfg.case_sensitive
    THEN IsSubstring(cfg.target_text, stripped)
    ELSE IsSubstring(Lower(cfg.target_text), Lower(stripped))

\* if target_text and _contains(stripped, target_text, case_sensitive)
IsTargetHit(stripped, cfg) ==
    Truthy(cfg.target_text)
        /\ _contains(stripped, cfg.target_text, cfg.case_sensitive)

\* HitRow as it would be with the line's number used as the hit's index.
HitRowIndexFromLine(rows, idx, stripped, cfg, parent, op_no, tool_change, tool_number) ==
    [hit_index         |-> idx + 1,
     line_number       |-> idx + 1,
     target_text       |-> cfg.target_text,
     target_line       |-> stripped,
     operation_no_line |-> OrEmpty(op_no),
     tool_number_line  |-> OrEmpty(tool_number),
     tool_change_line  |-> OrEmpty(tool_change),
     parent_line       |-> OrEmpty(parent)]

\* HitRow as it would be with the 0-based loop index as line_number.
HitRowZeroBased(rows, idx, stripped, cfg, parent, op_no, tool_change, tool_number) ==
    [hit_index         |-> Len(rows) + 1,
     line_number       |-> idx,
     target_text       |-> cfg.target_text,
     target_line       |-> stripped,
     operation_no_line |-> OrEmpty(op_no),
     tool_number_line  |-> OrEmpty(tool_number),
     tool_change_line  |-> OrEmpty(tool_change),
     parent_line       |-> OrEmpty(parent)]

\* The dict appended to rows for a hit.
HitRow(rows, idx, stripped, cfg, parent, op_no, tool_change, tool_number) ==
    [hit_index         |-> Len(rows) + 1,
     line_number       |-> idx + 1,
     target_text       |-> cfg.target_text,
     target_line       |-> stripped,
     operation_no_line |-> OrEmpty(op_no),
     tool_number_line  |-> OrEmpty(tool_number),
     tool_change_line  |-> OrEmpty(tool_change),
     parent_line       |-> OrEmpty(parent)]

\* LoopBody as it would be with the target check moved above the
\* tool-number update: the hit is emitted with the tracker's old value.
LoopBodyHitFirst(st, idx, line, cfg) ==
    LET stripped    == Strip(line)
        parent      == UpdateParent(st.last_parent, stripped, cfg)
        op_no       == UpdateOpNo(st.last_op_no, stripped, cfg)
        tool_change == UpdateToolChange(st.last_tool_change, stripped, cfg)
        tool_number == UpdateToolNumber(st.last_tool_number, stripped, cfg)
    IN  [last_parent      |-> parent,
         last_op_no       |-> op_no,
         last_tool_change |-> tool_change,
         last_tool_number |-> tool_number,
         rows |-> IF IsTargetHit(stripped, cfg)
                  THEN Append(st.rows, HitRow(st.rows, idx, stripped, cfg, parent, op_no,
                                              tool_change, st.last_tool_number))
                  ELSE st.rows]

\* The loop body: the four tracker updates, then the target check.
LoopBody(st, idx, line, cfg) ==
    LET stripped    == Strip(line)
        parent      == UpdateParent(st.last_parent, stripped, cfg)
        op_no       == UpdateOpNo(st.last_op_no, stripped, cfg)
        tool_change == UpdateToolChange(st.last_tool_change, stripped, cfg)
        tool_number == UpdateToolNumber(st.last_tool_number, stripped, cfg)
    IN  [last_parent      |-> parent,
         last_op_no       |-> op_no,
         last_tool_change |-> tool_change,
         last_tool_number |-> tool_number,
         rows |-> IF IsTargetHit(stripped, cfg)
                  THEN Append(st.rows, HitRow(st.rows, idx, stripped, cfg,
                                              parent, op_no, tool_change, tool_number))
                  ELSE st.rows]

RECURSIVE ScanPrefix(_, _, _)
\* scan_file_for_hits as a function: the trackers and rows after the first n
\* lines of ls, from unset trackers and no rows.
ScanPrefix(ls, n, cfg) ==
    IF n = 0
    THEN [last_parent      |-> None,
          last_op_no       |-> None,
          last_tool_change |-> None,
          last_tool_number |-> None,
          rows             |-> <<>>]
    ELSE LoopBody(ScanPrefix(ls, n - 1, cfg), n - 1, ls[n], cfg)

\* ---------------------------------------------------------- report writer

\* fieldnames of write_csv_report
fieldnames ==
    <<"total_hits", "hit_index", "line_number", "target_text", "target_line",
      "operation_no_line", "tool_number_line", "tool_change_line", "parent_line">>

\* WithTotal as it would be if the running count were written as the total.
WithRunningTotal(r, total_hits) ==
    [k \in DOMAIN r \cup {"total_hits"} |->
        IF k \in DOMAIN r THEN r[k] ELSE r.hit_index]

\* {"total_hits": total_hits, **r}
WithTotal(r, total_hits) ==
    [k \in DOMAIN r \cup {"total_hits"} |->
        IF k \in DOMAIN r THEN r[k] ELSE total_hits]

\* DictWriter.writerow: the dict's values in fieldnames order.
CsvRecord(d) == [i \in 1..Len(fieldnames) |-> d[fieldnames[i]]]

\* The records write_csv_report puts in the file: the header, then one per row.
write_csv_report(rs, total_hits) ==
    <<fieldnames>> \o [i \in 1..Len(rs) |-> CsvRecord(WithTotal(rs[i], total_hits))]


\* ------------------------------------------------------------------ inputs

\* Search texts the runs are given.
TargetText     == <<"p","g">>
ParentText     == <<"O","P">>
OpNoText       == <<"N","O">>
ToolChangeText == <<"M","6">>
BlankText      == <<" "," ">>

\* The lines a scanned file is made of.  Between them they hold: a parent
\* line with surrounding whitespace; a line that is a parent line only up to
\* letter case and an operation-number line; a line that is an operation-
\* number, tool-change and tool-number line; a target line only up to letter
\* case; a line with a lowercase tool token, the target twice and the
\* tool-change text in the other case; a TOOL CALL line that is a target,
\* parent, operation-number and tool-change line as well; a line of
\* whitespace only.
LinePool ==
    { <<" ","O","P"," ","A"," ">>,
      <<"o","p"," ","b"," ","N","O"," ","2">>,
      <<"N","O"," ","3"," ","M","6"," ","T","3">>,
      <<"P","G">>,
      <<"t","5"," ","p","g"," ","m","6"," ","p","g">>,
      <<"O","P"," ","N","O"," ","6"," ","M","6"," ","T","O","O","L"," ","C","A","L","L"," ","6"," ","p","g">>,
      <<" "," ">> }

RECURSIVE SeqsUpTo(_, _)
\* Every sequence over S of length at most n.
SeqsUpTo(S, n) ==
    IF n = 0 THEN {<<>>}
    ELSE LET shorter == SeqsUpTo(S, n - 1)
         IN  shorter \cup {Append(q, x) : q \in {q \in shorter : Len(q) = n - 1}, x \in S}

\* read_text_file_lines: what a readable input file can hold.
Files == SeqsUpTo(LinePool, MaxLines)

\* The search settings scan_file_for_hits is called with directly.
ScanConfigs ==
    [target_text      : {<<>>, TargetText},
     parent_text      : {<<>>, ParentText},
     use_parent       : BOOLEAN,
     op_no_text       : {<<>>, OpNoText},
     tool_change_text : {<<>>, ToolChangeText},
     case_sensitive   : BOOLEAN]

\* A config file that holds no JSON document.
NoDocument(kind) == [kind |-> kind, fields |-> <<>>]

\* A config file that holds a JSON document that is no object.
NotADict(kind) == [kind |-> kind, fields |-> <<>>]

\* A config file that holds a JSON object.
DictFile(fields) == [kind |-> "dict", fields |-> fields]

\* The keys load reads.
ConfigKeys ==
    {"target_text", "parent_text", "use_parent", "op_no_text", "tool_change_text",
     "case_sensitive"}

\* The JSON values a key is given.
JsonValues ==
    {PyStr(<<>>), PyStr(BlankText), PyStr(TargetText), PyInt(<<"0">>), PyInt(<<"5">>),
     PyNull, PyTrue, PyFalse}

\* The config files: none, unreadable, not JSON, JSON that is no object, the
\* empty object, and the objects with one key, a key load reads or another.
ConfigFiles ==
    {NoDocument(k) : k \in {"missing", "unreadable", "not_json"}}
        \cup {NotADict(k) : k \in {"list", "str", "int", "NoneType", "bool"}}
        \cup {DictFile(<<>>)}
        \cup {DictFile([k \in {key} |-> v]) : key \in ConfigKeys \cup {"foo"}, v \in JsonValues}

\* The config files of the CLI runs: none, and a stored target_text that is
\* empty or whitespace.
CliConfigFiles ==
    {NoDocument("missing"),
     DictFile([k \in {"target_text"} |-> PyStr(<<>>)]),
     DictFile([k \in {"target_text"} |-> PyStr(BlankText)])}

\* What AppConfig.load() hands the CLI: the defaults, or the defaults with a
\* stored target_text that is empty or whitespace.
LoadedConfigs ==
    {PlainConfig(AppConfig_load(f).config) : f \in CliConfigFiles}

\* The command line of "core": an option that is not given is None.
CliArgs ==
    [input_is_file : BOOLEAN,
     outdir_is_dir : BOOLEAN,
     target        : {None, Some(<<>>), Some(BlankText), Some(TargetText)},
     parent        : {None},
     no_parent     : BOOLEAN,
     opno          : {None},
     toolchg       : {None, Some(<<>>)},
     case          : BOOLEAN]

\* The widgets on_run reads: the text boxes as typed (on_run strips them) and
\* the two check boxes.
GuiInputs ==
    [input_is_file    : BOOLEAN,
     output_is_dir    : BOOLEAN,
     target_input     : {<<>>, BlankText, <<" ">> \o TargetText \o <<" ">>},
     parent_input     : {ParentText \o <<" ">>},
     use_parent       : BOOLEAN,
     opno_input       : {OpNoText},
     toolchg_input    : {<<>>, ToolChangeText},
     case_checkbox    : BOOLEAN]


\* ------------------------------------------------------------------- state

VARIABLES
    pc,                \* idle | scan | returned | done | rejected | loaded
    caller,            \* none | api | cli | gui: who called scan_file_for_hits
    target_text,       \* the front end's local target_text, once computed
    scan_args,         \* the search settings scan_file_for_hits was called with
    lines,             \* scan_file_for_hits: lines
    idx,               \* scan_file_for_hits: lines consumed by the loop
    last_parent,       \* scan_file_for_hits: last_parent
    last_op_no,        \* scan_file_for_hits: last_op_no
    last_tool_change,  \* scan_file_for_hits: last_tool_change
    last_tool_number,  \* scan_file_for_hits: last_tool_number
    rows,              \* scan_file_for_hits: rows
    total_hits,        \* the second component of the scanner's return value
    report,            \* the records of the report file, once written
    saved,             \* what on_run saved with AppConfig.save()
    config_file,       \* the config file a call of AppConfig.load() found
    load_result,       \* what that call of AppConfig.load() came to
    calls,             \* the calls of scan_file_for_hits this process has made
    first_result       \* what the first of them returned, once a later one began

vars == <<pc, caller, target_text, scan_args, lines, idx, last_parent, last_op_no,
          last_tool_change, last_tool_number, rows, total_hits, report, saved,
          config_file, load_result, calls, first_result>>

loadVars == <<config_file, load_result>>

scanVars == <<lines, idx, last_parent, last_op_no, last_tool_change,
              last_tool_number, rows>>

Init ==
    /\ pc = "idle"
    /\ caller = "none"
    /\ target_text = None
    /\ scan_args = None
    /\ lines = <<>>
    /\ idx = 0
    /\ last_parent = None
    /\ last_op_no = None
    /\ last_tool_change = None
    /\ last_tool_number = None
    /\ rows = <<>>
    /\ total_hits = None
    /\ report = None
    /\ saved = None
    /\ config_file = None
    /\ load_result = None
    /\ calls = 0
    /\ first_result = None

\* EnterScan as it would be if the trackers and the rows were kept between
\* calls (module-level state instead of locals).
EnterScanKeepTrackers(cfg, file) ==
    /\ pc' = "scan"
    /\ calls' = calls + 1
    /\ scan_args' = Some(cfg)
    /\ lines' = file
    /\ idx' = 0
    /\ UNCHANGED <<last_parent, last_op_no, last_tool_change, last_tool_number, rows>>

\* scan_file_for_hits up to its loop: read the lines, unset the four
\* trackers, empty the rows.
EnterScan(cfg, file) ==
    /\ pc' = "scan"
    /\ calls' = calls + 1
    /\ scan_args' = Some(cfg)
    /\ lines' = file
    /\ idx' = 0
    /\ last_parent' = None
    /\ last_op_no' = None
    /\ last_tool_change' = None
    /\ last_tool_number' = None
    /\ rows' = <<>>

\* A caller that leaves before scan_file_for_hits is reached.
Reject ==
    /\ pc' = "rejected"
    /\ UNCHANGED <<scan_args, scanVars, calls>>

\* scan_file_for_hits called directly with its seven arguments.
ScanCall ==
    /\ pc = "idle"
    /\ \E cfg \in ScanConfigs, file \in Files :
         /\ caller' = "api"
         /\ target_text' = Some(cfg.target_text)
         /\ EnterScan(cfg, file)
    /\ UNCHANGED <<total_hits, report, saved, loadVars, first_result>>

\* The settings cli.main passes on: each given option over the loaded value.
CliEffective(args, loaded) ==
    [target_text      |-> IF args.target # None THEN args.target[1] ELSE loaded.target_text,
     parent_text      |-> IF args.parent # None THEN args.parent[1] ELSE loaded.parent_text,
     use_parent       |-> IF args.no_parent THEN FALSE ELSE loaded.use_parent,
     op_no_text       |-> IF args.opno # None THEN args.opno[1] ELSE loaded.op_no_text,
     tool_change_text |-> IF args.toolchg # None THEN args.toolchg[1]
                          ELSE loaded.tool_change_text,
     case_sensitive   |-> IF args.case THEN TRUE ELSE loaded.case_sensitive]

\* `if not target_text: raise SystemExit(...)` of cli.main
CliTargetRejected(text) == ~Truthy(text)

\* cli.main, command "core", up to its call of scan_file_for_hits.
CliCore ==
    /\ pc = "idle"
    /\ caller' = "cli"
    /\ \E args \in CliArgs, loaded \in LoadedConfigs :
         LET eff == CliEffective(args, loaded)
         IN  IF ~args.input_is_file \/ ~args.outdir_is_dir
             THEN target_text' = None /\ Reject
             ELSE /\ target_text' = Some(eff.target_text)
                  /\ IF CliTargetRejected(eff.target_text)
                     THEN Reject
                     ELSE \E file \in Files : EnterScan(eff, file)
    /\ UNCHANGED <<total_hits, report, saved, loadVars, first_result>>

\* The settings on_run stores in self.config: the text boxes stripped.
GuiEffective(gui) ==
    [target_text      |-> Strip(gui.target_input),
     parent_text      |-> Strip(gui.parent_input),
     use_parent       |-> gui.use_parent,
     op_no_text       |-> Strip(gui.opno_input),
     tool_change_text |-> Strip(gui.toolchg_input),
     case_sensitive   |-> gui.case_checkbox]

\* `if not target_text: QMessageBox.warning(...); return` of on_run, on the
\* stripped text.
GuiTargetRejected(text) == ~Truthy(text)

\* MainWindow.on_run up to its call of scan_file_for_hits.
GuiRun ==
    /\ pc = "idle"
    /\ caller' = "gui"
    /\ \E gui \in GuiInputs :
         LET eff == GuiEffective(gui)
         IN  IF ~gui.input_is_file \/ ~gui.output_is_dir
             THEN target_text' = None /\ saved' = saved /\ Reject
             ELSE /\ target_text' = Some(eff.target_text)
                  /\ IF GuiTargetRejected(eff.target_text)
                     THEN saved' = saved /\ Reject
                     ELSE /\ saved' = Some(eff)
                          /\ \E file \in Files : EnterScan(eff, file)
    /\ UNCHANGED <<total_hits, report, loadVars, first_result>>

\* One iteration of `for idx, line in enumerate(lines)`.
ScanLine ==
    /\ pc = "scan"
    /\ idx < Len(lines)
    /\ LET st == [last_parent      |-> last_parent,
                  last_op_no       |-> last_op_no,
                  last_tool_change |-> last_tool_change,
                  last_tool_number |-> last_tool_number,
                  rows             |-> rows]
           nx == LoopBody(st, idx, lines[idx + 1], scan_args[1])
       IN  /\ last_parent' = nx.last_parent
           /\ last_op_no' = nx.last_op_no
           /\ last_tool_change' = nx.last_tool_change
           /\ last_tool_number' = nx.last_tool_number
           /\ rows' = nx.rows
    /\ idx' = idx + 1
    /\ UNCHANGED <<pc, caller, target_text, scan_args, lines, total_hits, report, saved,
                   loadVars, calls, first_result>>

\* len(rows), the total the scanner returns with rows.
ReturnedTotal(rs) == Len(rs)

\* `return rows, len(rows)`
ScanReturn ==
    /\ pc = "scan"
    /\ idx = Len(lines)
    /\ pc' = "returned"
    /\ total_hits' = Some(ReturnedTotal(rows))
    /\ UNCHANGED <<caller, target_text, scan_args, scanVars, report, saved, loadVars,
                   calls, first_result>>

\* The front ends' write_csv_report(report_path, rows, total_hits).
WriteReport ==
    /\ pc = "returned"
    /\ caller \in {"cli", "gui"}
    /\ pc' = "done"
    /\ report' = Some(write_csv_report(rows, total_hits[1]))
    /\ UNCHANGED <<caller, target_text, scan_args, scanVars, total_hits, saved, loadVars,
                   calls, first_result>>

\* AppConfig.load() called on the config file as it is found.
LoadConfig ==
    /\ pc = "idle"
    /\ pc' = "loaded"
    /\ \E file \in ConfigFiles :
         /\ config_file' = Some(file)
         /\ load_result' = Some(AppConfig_load(file))
    /\ UNCHANGED <<caller, target_text, scan_args, scanVars, total_hits, report, saved,
                   calls, first_result>>

\* What the first call returned, kept when the second call begins.
KeepFirst ==
    first_result' = IF calls = 1
                    THEN Some([rows |-> rows, total_hits |-> total_hits[1]])
                    ELSE first_result

\* scan_file_for_hits called again by the same process, with the same file
\* (unchanged on disk) and the same six search settings.
ScanCallAgain ==
    /\ pc = "returned"
    /\ caller = "api"
    /\ calls < MaxScans
    /\ KeepFirst
    /\ total_hits' = None
    /\ EnterScan(scan_args[1], lines)
    /\ UNCHANGED <<caller, target_text, report, saved, loadVars>>

\* Run pressed again in the same window, the widgets and the input file as
\* they were: on_run passes its checks as before, saves the same settings
\* and calls scan_file_for_hits with them.
GuiRunAgain ==
    /\ pc = "done"
    /\ caller = "gui"
    /\ calls < MaxScans
    /\ KeepFirst
    /\ saved' = Some(scan_args[1])
    /\ total_hits' = None
    /\ report' = None
    /\ EnterScan(scan_args[1], lines)
    /\ UNCHANGED <<caller, target_text, loadVars>>

Next ==
    \/ ScanCall
    \/ CliCore
    \/ GuiRun
    \/ ScanLine
    \/ ScanReturn
    \/ WriteReport
    \/ LoadConfig

\* Each front end run once, the scanner called once, the configuration
\* loaded once.
Spec == Init /\ [][Next]_vars

\* A process that calls the scanner more than once: a caller of
\* scan_file_for_hits, or the window, where Run can be pressed again (a CLI
\* process makes one call).
RepeatNext ==
    \/ ScanCall
    \/ GuiRun
    \/ ScanLine
    \/ ScanReturn
    \/ WriteReport
    \/ ScanCallAgain
    \/ GuiRunAgain

RepeatSpec == Init /\ [][RepeatNext]_vars


\* ------------------------------------------------ vocabulary of the claims

\* The search settings of the scan in progress.
Cfg == scan_args[1]

\* scan_file_for_hits has been entered.
InScan == pc \in {"scan", "returned", "done"}

\* scan_file_for_hits has returned.
Returned == pc \in {"returned", "done"}

\* The trimmed text of the k-th line of the file (1-based).
Working(k) == Strip(lines[k])

\* Two characters that are equal, or the two cases of one letter.
SameUpToCase(a, b) ==
    a = b \/ \E i \in 1..26 : {a, b} = {UpperLetters[i], LowerLetters[i]}

\* text holds needle at some offset, compared exactly, or up to letter case
\* when exact is FALSE.
Occurs(text, needle, exact) ==
    \E off \in 0..(Len(text) - Len(needle)) :
        \A j \in 1..Len(needle) :
            IF exact THEN text[off + j] = needle[j]
                     ELSE SameUpToCase(text[off + j], needle[j])

\* The k-th line contains a non-empty search string under the configured
\* case rule.
LineHolds(k, needle) ==
    needle # <<>> /\ Occurs(Working(k), needle, Cfg.case_sensitive)

\* The trimmed text of the latest line among the first n that contains the
\* search string; the empty string if there is none.
LatestHolding(n, needle) ==
    LET held == {k \in 1..n : LineHolds(k, needle)}
    IN  IF held = {} THEN <<>>
        ELSE Working(CHOOSE k \in held : \A m \in held : m <= k)

\* ------------------------------------------------------------------ claims

\* C1: a hit on a line that is itself a tool-number line carries that same
\* line's trimmed text as tool_number_line: the tracker update precedes the
\* emission within the iteration.
C1_SameLineToolNumber ==
    InScan =>
        \A i \in 1..Len(rows) :
            _tool_number_match(rows[i].target_line, Cfg.case_sensitive)
                => rows[i].tool_number_line = Working(rows[i].line_number)

\* C1 witness: a hit on the second line, a tool-number line, after a
\* different tool-number line; the hit carries its own line.
C1_Witness ==
    /\ InScan
    /\ \E i \in 1..Len(rows) :
         /\ rows[i].line_number = 2
         /\ _tool_number_match(Working(2), Cfg.case_sensitive)
         /\ _tool_number_match(Working(1), Cfg.case_sensitive)
         /\ Working(1) # Working(2)
         /\ rows[i].tool_number_line = Working(2)

\* C2: in every emitted record, parent_line (use_parent true),
\* operation_no_line and tool_change_line are the trimmed text of the latest
\* line up to and including the hit line that contains the search string, and
\* empty if there is none; this stays so while later lines are consumed.
C2_TrackerSnapshots ==
    InScan =>
        \A i \in 1..Len(rows) :
            LET n == rows[i].line_number
            IN  /\ n \in 1..idx
                /\ Cfg.use_parent
                     => rows[i].parent_line = LatestHolding(n, Cfg.parent_text)
                /\ rows[i].operation_no_line = LatestHolding(n, Cfg.op_no_text)
                /\ rows[i].tool_change_line = LatestHolding(n, Cfg.tool_change_text)

\* C2 witness: a record emitted at line 1 that holds that line as its
\* parent, operation-number and tool-change line, and a second line, already
\* consumed, that holds the operation-number and tool-change texts too.
C2_Witness ==
    /\ InScan
    /\ idx = 2
    /\ Cfg.use_parent
    /\ LineHolds(2, Cfg.op_no_text)
    /\ LineHolds(2, Cfg.tool_change_text)
    /\ Working(2) # Working(1)
    /\ \E i \in 1..Len(rows) :
         /\ rows[i].line_number = 1
         /\ rows[i].parent_line = Working(1)
         /\ rows[i].operation_no_line = Working(1)
         /\ rows[i].tool_change_line = Working(1)

\* C2, the latest of two: a record for line 2 where both lines hold the
\* operation-number text, with different texts.
C2_LatestOfTwo ==
    /\ InScan
    /\ \E i \in 1..Len(rows) :
         /\ rows[i].line_number = 2
         /\ LineHolds(1, Cfg.op_no_text)
         /\ LineHolds(2, Cfg.op_no_text)
         /\ Working(1) # Working(2)
         /\ rows[i].operation_no_line = Working(2)

\* C3: the total returned is the number of records, and the hit_index values
\* in emission order are 1, 2, ..., total.
C3_TotalAndIndexes ==
    /\ InScan => \A i \in 1..Len(rows) : rows[i].hit_index = i
    /\ Returned => total_hits = Some(Len(rows))

\* C3 witness: a scan that returned one record, for line 2: its index is
\* not its line number.
C3_Witness ==
    /\ Returned
    /\ total_hits = Some(1)
    /\ Len(rows) = 1
    /\ rows[1].line_number = 2

\* C4: with a non-empty target_text there is exactly one record per consumed
\* line whose trimmed text contains the target (under the configured case
\* rule), in file order, with that line's 1-based number and trimmed text and
\* the configured target_text.
C4_OneRecordPerMatchingLine ==
    (InScan /\ Cfg.target_text # <<>>) =>
        LET hits == {k \in 1..idx : LineHolds(k, Cfg.target_text)}
        IN  /\ Len(rows) = Cardinality(hits)
            /\ \A i \in 1..Len(rows) :
                 /\ rows[i].line_number \in hits
                 /\ rows[i].target_line = Working(rows[i].line_number)
                 /\ rows[i].target_text = Cfg.target_text
            /\ \A i, j \in 1..Len(rows) :
                 i < j => rows[i].line_number < rows[j].line_number

\* C4 witness: a returned scan of two lines, the first without the target
\* and the second with the target at two offsets, and one record, for line 2.
C4_Witness ==
    /\ Returned
    /\ Len(lines) = 2
    /\ Cfg.target_text # <<>>
    /\ ~LineHolds(1, Cfg.target_text)
    /\ \E a, b \in 0..Len(Working(2)) :
         /\ a # b
         /\ \A off \in {a, b} :
              /\ off + Len(Cfg.target_text) <= Len(Working(2))
              /\ \A j \in 1..Len(Cfg.target_text) :
                   Working(2)[off + j] = Cfg.target_text[j]
    /\ Len(rows) = 1
    /\ rows[1].line_number = 2

\* C5: a tracker whose search string is empty leaves its field empty in
\* every record, whatever the lines hold.
C5_EmptySearchString ==
    InScan =>
        \A i \in 1..Len(rows) :
            /\ Cfg.parent_text = <<>> => rows[i].parent_line = <<>>
            /\ Cfg.op_no_text = <<>> => rows[i].operation_no_line = <<>>
            /\ Cfg.tool_change_text = <<>> => rows[i].tool_change_line = <<>>

\* C5 witness: all three search strings empty, and a record for a line after
\* (or on) lines that hold the usual parent, operation-number and tool-change
\* texts.
C5_Witness ==
    /\ InScan
    /\ Cfg.parent_text = <<>>
    /\ Cfg.op_no_text = <<>>
    /\ Cfg.tool_change_text = <<>>
    /\ \E i \in 1..Len(rows) :
         /\ rows[i].line_number = 2
         /\ \E k \in 1..2 : Occurs(Working(k), ParentText, TRUE)
         /\ \E k \in 1..2 : Occurs(Working(k), OpNoText, TRUE)
         /\ \E k \in 1..2 : Occurs(Working(k), ToolChangeText, TRUE)


\* C6: with use_parent false the parent tracker stays unset and parent_line
\* is empty in every record, also with a parent_text given; the other three
\* trackers and the records, parent_line aside, are those of the same scan
\* with use_parent true.
C6_ParentDisabled ==
    (InScan /\ ~Cfg.use_parent) =>
        LET on == ScanPrefix(lines, idx, [Cfg EXCEPT !.use_parent = TRUE])
        IN  /\ last_parent = None
            /\ \A i \in 1..Len(rows) : rows[i].parent_line = <<>>
            /\ last_op_no = on.last_op_no
            /\ last_tool_change = on.last_tool_change
            /\ last_tool_number = on.last_tool_number
            /\ Len(rows) = Len(on.rows)
            /\ \A i \in 1..Len(rows) :
                 rows[i] = [on.rows[i] EXCEPT !.parent_line = <<>>]

\* C6 witness: use_parent false with a parent_text given; a record for line
\* 2 after a line that holds the parent text, where the scan with use_parent
\* true has a parent_line, and the record has an operation-number line.
C6_Witness ==
    /\ InScan
    /\ ~Cfg.use_parent
    /\ Cfg.parent_text # <<>>
    /\ \E i \in 1..Len(rows) :
         /\ rows[i].line_number = 2
         /\ LineHolds(1, Cfg.parent_text)
         /\ rows[i].parent_line = <<>>
         /\ rows[i].operation_no_line # <<>>
         /\ ScanPrefix(lines, idx, [Cfg EXCEPT !.use_parent = TRUE]).rows[i].parent_line
              # <<>>

\* C7: with an empty target_text the scanner emits no record and returns a
\* total of 0, whatever the lines and the other settings.
C7_EmptyTarget ==
    (InScan /\ Cfg.target_text = <<>>) =>
        /\ rows = <<>>
        /\ Returned => total_hits = Some(0)

\* C7 witness: a returned scan of two lines with an empty target_text and
\* the three other search strings given, each held by a line.
C7_Witness ==
    /\ Returned
    /\ Cfg.target_text = <<>>
    /\ Len(lines) = 2
    /\ Cfg.use_parent
    /\ \E k \in 1..2 : LineHolds(k, Cfg.parent_text)
    /\ \E k \in 1..2 : LineHolds(k, Cfg.op_no_text)
    /\ \E k \in 1..2 : LineHolds(k, Cfg.tool_change_text)
    /\ total_hits = Some(0)

\* The letters of a text in upper case.
Upper(s) ==
    [i \in 1..Len(s) |->
        IF \E k \in 1..26 : LowerLetters[k] = s[i]
        THEN UpperLetters[CHOOSE k \in 1..26 : LowerLetters[k] = s[i]]
        ELSE s[i]]

\* C8: the case flag governs all five checks alike.  On the line the loop
\* has just consumed: with case_sensitive false a search string held up to
\* letter case matches (the tracker takes the line, the target emits a
\* record) and a tool token in any case makes the line the tool-number line;
\* with case_sensitive true a search string not held exactly does not match,
\* and a line without an uppercase T is no tool-number line.
C8_CaseFlag ==
    (InScan /\ idx >= 1) =>
        LET line    == Working(idx)
            cs      == Cfg.case_sensitive
            hitHere == \E i \in 1..Len(rows) : rows[i].line_number = idx
            Governed(text, tracker) ==
                /\ (~cs /\ text # <<>> /\ Occurs(line, text, FALSE))
                     => tracker = Some(line)
                /\ (cs /\ ~Occurs(line, text, TRUE)) => tracker # Some(line)
        IN  /\ Cfg.use_parent => Governed(Cfg.parent_text, last_parent)
            /\ Governed(Cfg.op_no_text, last_op_no)
            /\ Governed(Cfg.tool_change_text, last_tool_change)
            /\ (~cs /\ Cfg.target_text # <<>> /\ Occurs(line, Cfg.target_text, FALSE))
                 => hitHere
            /\ (cs /\ ~Occurs(line, Cfg.target_text, TRUE)) => ~hitHere
            /\ (~cs /\ _tool_number_match(Upper(line), TRUE))
                 => last_tool_number = Some(line)
            /\ (cs /\ \A k \in 1..Len(line) : line[k] # "T")
                 => last_tool_number # Some(line)

\* C8 witness: case_sensitive false, and a line just consumed that holds the
\* tool-change text only in the other case and a tool token only in lower
\* case: it is the tool-change line and the tool-number line.
C8_Witness ==
    /\ InScan
    /\ idx >= 1
    /\ ~Cfg.case_sensitive
    /\ Cfg.tool_change_text # <<>>
    /\ Occurs(Working(idx), Cfg.tool_change_text, FALSE)
    /\ ~Occurs(Working(idx), Cfg.tool_change_text, TRUE)
    /\ \A k \in 1..Len(Working(idx)) : Working(idx)[k] # "T"
    /\ last_tool_change = Some(Working(idx))
    /\ last_tool_number = Some(Working(idx))

\* C8, the case-sensitive side: a second line that holds the target only in
\* the other case emits nothing, after a first line that emitted a record.
C8_SensitiveCase ==
    /\ InScan
    /\ idx = 2
    /\ Cfg.case_sensitive
    /\ Cfg.target_text # <<>>
    /\ Occurs(Working(2), Cfg.target_text, FALSE)
    /\ ~Occurs(Working(2), Cfg.target_text, TRUE)
    /\ Len(rows) = 1
    /\ rows[1].line_number = 1

\* C9: the report holds the header in the fixed column order, then one
\* record per hit in hit order, each with the number of hits as total_hits;
\* with no hit it holds the header alone.
C9_ReportLayout ==
    pc = "done" =>
        LET file == report[1]
            N    == Len(rows)
        IN  /\ Len(file) = N + 1
            /\ file[1] = <<"total_hits", "hit_index", "line_number", "target_text",
                           "target_line", "operation_no_line", "tool_number_line",
                           "tool_change_line", "parent_line">>
            /\ \A i \in 1..N :
                 /\ Len(file[i + 1]) = 9
                 /\ file[i + 1][1] = N
                 /\ file[i + 1][2] = i
                 /\ file[i + 1][3] = rows[i].line_number
                 /\ file[i + 1][4] = rows[i].target_text
                 /\ file[i + 1][5] = rows[i].target_line
                 /\ file[i + 1][6] = rows[i].operation_no_line
                 /\ file[i + 1][7] = rows[i].tool_number_line
                 /\ file[i + 1][8] = rows[i].tool_change_line
                 /\ file[i + 1][9] = rows[i].parent_line

\* C9 witness: a report written from two hits.
C9_Witness ==
    /\ pc = "done"
    /\ Len(rows) = 2
    /\ Len(report[1]) = 3

\* C9, no hit: a report written from no hit holds one record, the header.
C9_EmptyReport ==
    /\ pc = "done"
    /\ rows = <<>>
    /\ Len(report[1]) = 1

\* A text that is empty or whitespace only.
IsBlank(text) == \A k \in 1..Len(text) : text[k] \in WhiteSpace

\* C10: a run of a front end whose effective target_text is blank (empty or
\* whitespace only) is rejected before the scanner is called, and writes no
\* report.
C10_BlankTargetRejected ==
    (caller \in {"cli", "gui"} /\ target_text # None /\ IsBlank(target_text[1]))
        => (pc = "rejected" /\ report = None)

\* C10 as the code has it: both front ends reject an empty target_text, and
\* on_run, which strips the text box, a whitespace-only one; cli.main passes a
\* whitespace-only target_text on to the scanner.
C10_EmptyTargetRejected ==
    /\ (caller \in {"cli", "gui"} /\ target_text = Some(<<>>))
          => (pc = "rejected" /\ report = None)
    /\ (caller = "gui" /\ target_text # None /\ IsBlank(target_text[1]))
          => target_text = Some(<<>>)

\* ------------------------------------------------------- C11: loading defaults

\* A call of AppConfig.load() has come to its end.
Loaded == pc = "loaded"

\* The config file of that call, and what the call came to.
ConfigFile == config_file[1]
LoadResult == load_result[1]

\* The fields of AppConfig that hold text.
TextFields == {"target_text", "parent_text", "op_no_text", "tool_change_text"}

\* The file holds a keyed record: a JSON object.
KeyedRecord(file) == file.kind = "dict"

\* The record is usable: each text field it gives holds a string (a flag is
\* taken through bool(), which takes every value).
UsableRecord(file) ==
    /\ KeyedRecord(file)
    /\ \A k \in DOMAIN file.fields \cap TextFields : file.fields[k].t = "str"

\* The record gives none of the fields load reads.
NoExpectedField(file) ==
    KeyedRecord(file) /\ DOMAIN file.fields \cap ConfigKeys = {}

\* The config file is missing, unreadable or corrupt.
MissingOrCorrupt(file) ==
    \/ file.kind \in {"missing", "unreadable", "not_json"}
    \/ ~UsableRecord(file)

\* C11 (as claimed): loading never fails, and when the config file is
\* missing, unreadable or corrupt (not valid JSON, or JSON whose content is
\* not a usable keyed record of the expected fields), AppConfig.load returns
\* the built-in defaults, never raising and never returning other values.
C11_CorruptGivesDefaults ==
    Loaded =>
        /\ LoadResult.raised = ""
        /\ MissingOrCorrupt(ConfigFile) => LoadResult.config = AppConfig

\* C11, the part that holds: load never raises, and it returns the
\* built-in defaults when the file is missing, unreadable, not valid JSON,
\* JSON that is no object, or an object that gives none of the fields it
\* reads.
C11_FallbackToDefaults ==
    Loaded =>
        /\ LoadResult.raised = ""
        /\ (~KeyedRecord(ConfigFile) \/ NoExpectedField(ConfigFile))
               => /\ LoadResult.config = AppConfig
                  /\ PlainConfig(LoadResult.config) = AppConfigDefaults

\* C11, where it fails: the file is a JSON object whose target_text is no
\* string, and load returns that value in target_text.
C11_WrongTypeReturned ==
    /\ Loaded
    /\ KeyedRecord(ConfigFile) /\ ~UsableRecord(ConfigFile)
    /\ LoadResult.raised = ""
    /\ LoadResult.config.target_text.t # "str"
    /\ LoadResult.config # AppConfig

\* ------------------------------------------------------- C12: repeated scans

\* A call of scan_file_for_hits after the first has been entered.
LaterScan == InScan /\ calls >= 2

\* C12: a scan run again on the same lines with the same configuration
\* returns the same hit sequence and the same total as the first run, and
\* every scan starts with the four trackers unset and no hits: nothing of an
\* earlier scan shows in a later one (at each step a later scan holds what a
\* scan of those lines from unset trackers and no hits holds).
C12_RepeatedScanSameResult ==
    /\ (InScan /\ idx = 0) =>
           /\ last_parent = None
           /\ last_op_no = None
           /\ last_tool_change = None
           /\ last_tool_number = None
           /\ rows = <<>>
    /\ (LaterScan /\ Returned) =>
           /\ rows = first_result[1].rows
           /\ total_hits = Some(first_result[1].total_hits)
    /\ LaterScan =>
           LET fresh == ScanPrefix(lines, idx, Cfg)
           IN  /\ rows = fresh.rows
               /\ last_parent = fresh.last_parent
               /\ last_op_no = fresh.last_op_no
               /\ last_tool_change = fresh.last_tool_change
               /\ last_tool_number = fresh.last_tool_number

\* C12 witness: a second scan has returned its hit; the first scan ended with
\* a parent line and an operation-number line set after its hit, and the
\* second scan's hit carries neither.
C12_Witness ==
    /\ LaterScan /\ Returned
    /\ Len(first_result[1].rows) >= 1
    /\ last_parent # None
    /\ last_op_no # None
    /\ rows[1].parent_line = <<>>
    /\ rows[1].operation_no_line = <<>>
    /\ rows[1].line_number = 1

=============================================================================
